---- MODULE Spec2Model ----
(***************************************************************************)
(* A model of memorybench's Graphlit provider (ingest, awaitIndexing,      *)
(* search, clear), of the cleanup command and of the LongMemEval           *)
(* evaluation script, as state machines whose steps are the code's         *)
(* suspension points (every await) and whose environment is the remote     *)
(* provider API, the clock, the answering/judging model and the file       *)
(* system.                                                                 *)
(***************************************************************************)
EXTENDS Integers, Sequences, FiniteSets, TLC

(***************************************************************************)
(* Bounds of the model.                                                    *)
(***************************************************************************)
\* documentIds handed to a stand-alone awaitIndexing call: 0..MaxDocs of them
MaxDocs == 2
\* how many times a failed ingest of one question is called again
MaxAttempts == 2
\* sleeps of one awaitIndexing call explored when calls of several questions interleave
MaxPolls == 1

(***************************************************************************)
(* Strings are sequences of one-character strings, so that split, slice    *)
(* and join do what String.prototype.split, Array.prototype.slice and      *)
(* Array.prototype.join do.                                                *)
(***************************************************************************)
RECURSIVE SplitAcc(_, _, _, _)
SplitAcc(s, sep, cur, acc) ==
    IF s = <<>> THEN Append(acc, cur)
    ELSE IF Len(s) >= Len(sep) /\ SubSeq(s, 1, Len(sep)) = sep
         THEN SplitAcc(SubSeq(s, Len(sep) + 1, Len(s)), sep, <<>>, Append(acc, cur))
         ELSE SplitAcc(Tail(s), sep, Append(cur, Head(s)), acc)

split(s, sep) == SplitAcc(s, sep, <<>>, <<>>)

slice1(parts) == IF parts = <<>> THEN <<>> ELSE Tail(parts)

RECURSIVE join(_, _)
join(parts, sep) ==
    IF parts = <<>> THEN <<>>
    ELSE IF Len(parts) = 1 THEN parts[1]
         ELSE parts[1] \o sep \o join(Tail(parts), sep)

\* "conv-26-q0-run-xxx" -> "conv-26-run-xxx"
getConversationContainerTag(containerTag) ==
    LET parts == split(containerTag, <<"-", "q">>) IN
    IF Len(parts) >= 2
    THEN LET convId == parts[1]
             rest == join(slice1(split(parts[2], <<"-">>)), <<"-">>)
         IN convId \o <<"-">> \o rest
    ELSE containerTag

(***************************************************************************)
(* The questions of one run that the pipeline drives through one           *)
(* GraphlitProvider instance: two questions of the same conversation,      *)
(* which carry the conversation's sessions.                                *)
(***************************************************************************)
Questions == {1, 2}

\* the containerTag "{convId}-q{n}-{runId}"
Tag(convId, n, runId) == <<convId, "-", "q", n, "-", runId>>

QTag(q) == IF q = 1 THEN Tag("a", "0", "r") ELSE Tag("a", "1", "r")

\* the sessionIds of the UnifiedSession[] passed to ingest for question q
QSessions(q) == IF q = 1 THEN <<1, 2>> ELSE <<2>>

\* a tag nothing was ever ingested for
OtherTag == Tag("b", "0", "r")

ClearTags == {QTag(q) : q \in Questions} \cup {OtherTag}

\* Array.from(new Set(seq)): the first occurrence of every element, in order
RECURSIVE Dedup(_)
Dedup(seq) ==
    IF seq = <<>> THEN <<>>
    ELSE LET front == Dedup(SubSeq(seq, 1, Len(seq) - 1))
             last == seq[Len(seq)]
         IN IF \E i \in 1..Len(front) : front[i] = last THEN front ELSE Append(front, last)

Range(seq) == {seq[i] : i \in 1..Len(seq)}

(***************************************************************************)
(* The runs whose checkpoints the cleanup command finds, and the           *)
(* containerTags of their questions, in the order of checkpoint.questions. *)
(***************************************************************************)
\* how many runs have a checkpoint
NumRuns == 2

Runs == 1..NumRuns

\* a run id given with -r that has no checkpoint
MissingRun == 0

RunChar(r) == IF r = 1 THEN "r" ELSE IF r = 2 THEN "s" ELSE "t"

RunQuestionTags(r) ==
    IF r = 1 THEN <<Tag("a", "0", "r"), Tag("a", "1", "r"), Tag("a", "0", "r")>>
    ELSE <<Tag("a", "0", RunChar(r)), Tag("b", "0", RunChar(r))>>

RunTags == UNION {Range(RunQuestionTags(r)) : r \in Runs}

Names == {getConversationContainerTag(t) : t \in ClearTags \cup RunTags}

NoId == 0

\* awaitIndexing's constants, in milliseconds
pollInterval == 500
timeout == 300000

\* how long one isContentDone request may take: at once, or as long as the timeout
CallLatency == {0, timeout}

VARIABLES
    \* GraphlitProvider's fields
    client,             \* TRUE once initialize has set this.client
    collectionCache,    \* Map<string, string>: name -> collection id, NoId when absent
    ingestedSessions,   \* Set<string> of sessionIds
    \* the provider's side
    collections,        \* the collections that exist: records [id, name]
    contents,           \* the contents that exist: records [id, session, collection, done]
    nextId,             \* the next id the provider hands out
    \* one frame per question: the call of the pipeline that is in flight
    pc,                 \* where question q's call stands
    op,                 \* the method getOrCreateCollection returns to
    collectionId,       \* the method's local collectionId
    sidx,               \* ingest's position in sessions
    documentIds,        \* ingest's local documentIds, then the IngestResult
    attempts,           \* ingest calls made for q
    aidx,               \* awaitIndexing's position in contentIds
    elapsed,            \* Date.now() - startTime of q's awaitIndexing call
    seenDone,           \* contentIds for which isContentDone returned true in this call
    latePoll,           \* an isContentDone request was issued with elapsed >= timeout
    timedOut,           \* q's last awaitIndexing call left the while loop on its condition
    searchResults,      \* what search returned for q: the sessions of the sources
    \* the frame of a clear call
    clr,
    \* the checkpoint store (CheckpointManager), as the cleanup command sees it
    store,              \* the runs that have a checkpoint folder
    ckLoadable,         \* whether load(runId) returns run's checkpoint
    ckProvider,         \* checkpoint.provider of each run
    \* cleanupCommand
    cpc,                \* where the command stands
    cargs,              \* parseCleanupArgs' result
    runIds,             \* the runs to clean
    runsByProvider,     \* Map<ProviderName, string[]> in insertion order
    pidx,               \* position in runsByProvider
    ridx,               \* position in providerRunIds
    containerTags,      \* the tags of the run being cleaned
    tidx,               \* position in containerTags
    totalCleaned,
    totalFailed,
    clearCalls,         \* how often provider.clear was called for <<run, tag>>
    clearThrown,        \* the <<run, tag>> whose provider.clear call threw
    \* the evaluation script (evaluate.ts): its files
    resultKind,         \* what each selected result file holds
    resultQid,          \* the metadata.questionId each selected result file carries
    outputFile,         \* the file at outputPath
    \* evaluateAll
    epc,                \* where the script stands
    evaluations,        \* the local evaluations
    processedQuestionIds,
    fidx,               \* position in resultFiles
    hypothesis,         \* evaluateQuestion's local hypothesis
    calls,              \* generateText calls of this process: [answer, judge]
    summary,            \* the figures of the final summary
    loadFailed,         \* this process could not parse the file at outputPath
    durable,            \* the questionIds a complete file at outputPath has held
    crashes,            \* how often the process was killed
    tries,              \* how often the calls for each questionId were started
    \* calls of getConversationContainerTag on their own
    tagCall,            \* the tags' parts, the results so far, and where the calls stand
    \* the evaluation script's choice of result files
    selection           \* the runId, the files in resultsDir, and the resultFiles chosen

provFields == <<client, collectionCache, ingestedSessions>>
remote == <<collections, contents, nextId>>
ingestFrame == <<op, collectionId, sidx, documentIds, attempts>>
awaitFrame == <<aidx, elapsed, seenDone, latePoll, timedOut>>
provVars == <<provFields, remote, pc, ingestFrame, awaitFrame, searchResults, clr>>

ckStore == <<store, ckLoadable, ckProvider>>
cleanupFrame == <<cpc, cargs, runIds, runsByProvider, pidx, ridx, containerTags, tidx>>
cleanupCounts == <<totalCleaned, totalFailed, clearCalls, clearThrown>>
cleanupVars == <<ckStore, cleanupFrame, cleanupCounts>>

evalFiles == <<resultKind, resultQid, outputFile>>
evalFrame == <<epc, evaluations, processedQuestionIds, fidx, hypothesis>>
evalGhosts == <<calls, summary, loadFailed, durable, crashes, tries>>
evalVars == <<evalFiles, evalFrame, evalGhosts>>

otherThanProvider == <<cleanupVars, evalVars, tagCall, selection>>
otherThanCleanup == <<evalVars, tagCall, selection>>
otherThanEval == <<provVars, cleanupVars, tagCall, selection>>

vars == <<provVars, cleanupVars, evalVars, tagCall, selection>>

\* the script is not choosing result files
SelectionOff == selection = [pc |-> "off"]

\* no call of getConversationContainerTag on its own
TagOff == tagCall = [pc |-> "off"]

NoSummary == [totalQuestions |-> 0, correctAnswers |-> 0, accuracy |-> 0]

\* the evaluation script is not running
EvalOff ==
    /\ resultKind = <<>>
    /\ resultQid = <<>>
    /\ outputFile = [state |-> "absent"]
    /\ epc = "off"
    /\ evaluations = <<>>
    /\ processedQuestionIds = {}
    /\ fidx = 1
    /\ hypothesis = "none"
    /\ calls = [answer |-> 0, judge |-> 0]
    /\ summary = NoSummary
    /\ loadFailed = FALSE
    /\ durable = {}
    /\ crashes = 0
    /\ tries = <<>>

\* the cleanup command is not running
CleanupOff ==
    /\ store = Runs
    /\ ckLoadable = [r \in Runs |-> TRUE]
    /\ ckProvider = [r \in Runs |-> "graphlit"]
    /\ cpc = "off"
    /\ cargs = [parsed |-> FALSE, all |-> FALSE, runId |-> MissingRun]
    /\ runIds = <<>>
    /\ runsByProvider = <<>>
    /\ pidx = 1
    /\ ridx = 1
    /\ containerTags = <<>>
    /\ tidx = 1
    /\ totalCleaned = 0
    /\ totalFailed = 0
    /\ clearCalls = [x \in Runs \X RunTags |-> 0]
    /\ clearThrown = {}

NoClear == [pc |-> "none", tag |-> <<>>, id |-> NoId, again |-> FALSE, failed |-> FALSE]

(***************************************************************************)
(* awaitIndexing (index.ts 153-181).  A step runs from one resumed await   *)
(* to the next await, as one turn of the event loop does.                  *)
(***************************************************************************)
\* the while loop's condition: Date.now() - startTime < timeout
WhileCondLe(e) == e <= timeout

WhileCond(e) == e < timeout

\* Control is at the top of the while loop for contentIds[i], e after the start:
\* the next isContentDone request is sent, or the loops are left and the call returns.
\* (Once the while condition is false it is false for every later contentId.)
AwaitResume(q, i, e) ==
    IF i <= Len(documentIds[q]) /\ WhileCond(e)
    THEN /\ pc' = [pc EXCEPT ![q] = "awPoll"]
         /\ aidx' = [aidx EXCEPT ![q] = i]
         /\ elapsed' = [elapsed EXCEPT ![q] = e]
         /\ latePoll' = [latePoll EXCEPT ![q] = @ \/ e >= timeout]
         /\ UNCHANGED timedOut
    ELSE \* "Indexing complete": the frame is dropped
         /\ pc' = [pc EXCEPT ![q] = "indexed"]
         /\ aidx' = [aidx EXCEPT ![q] = 1]
         /\ elapsed' = [elapsed EXCEPT ![q] = 0]
         /\ timedOut' = [timedOut EXCEPT ![q] = i <= Len(documentIds[q])]
         /\ UNCHANGED latePoll

\* the call begins: the guard on this.client, the early return on no documentIds
AwaitCall(q) ==
    /\ pc[q] = "ingested"
    /\ IF ~client
       THEN /\ pc' = [pc EXCEPT ![q] = "awaitThrown"]
            /\ UNCHANGED awaitFrame
       ELSE IF Len(documentIds[q]) = 0
       THEN /\ pc' = [pc EXCEPT ![q] = "indexed"]
            /\ UNCHANGED awaitFrame
       ELSE /\ AwaitResume(q, 1, 0)
            /\ UNCHANGED seenDone
    /\ UNCHANGED <<provFields, remote, ingestFrame, searchResults, clr>>
    /\ UNCHANGED otherThanProvider

\* what the provider answers to isContentDone(contentId)
IsContentDone(contentId) ==
    \E c \in contents : c.id = contentId /\ c.done

\* isContentDone answers after d ms: done breaks to the next contentId, not done
\* sleeps, a failure is rethrown as "Indexing check failed"
AwaitPollReturn(q) ==
    /\ pc[q] = "awPoll"
    /\ \E d \in CallLatency, threw \in BOOLEAN :
         IF threw
         THEN /\ pc' = [pc EXCEPT ![q] = "awaitThrown"]
              /\ aidx' = [aidx EXCEPT ![q] = 1]
              /\ elapsed' = [elapsed EXCEPT ![q] = 0]
              /\ UNCHANGED <<seenDone, latePoll, timedOut>>
         ELSE IF IsContentDone(documentIds[q][aidx[q]])
         THEN /\ seenDone' = [seenDone EXCEPT ![q] = @ \cup {documentIds[q][aidx[q]]}]
              /\ AwaitResume(q, aidx[q] + 1, elapsed[q] + d)
         ELSE /\ pc' = [pc EXCEPT ![q] = "awSleep"]
              /\ elapsed' = [elapsed EXCEPT ![q] = @ + d]
              /\ UNCHANGED <<aidx, seenDone, latePoll, timedOut>>
    /\ UNCHANGED <<provFields, remote, ingestFrame, searchResults, clr>>
    /\ UNCHANGED otherThanProvider

\* await new Promise(r => setTimeout(r, pollInterval)) is over
AwaitSleepReturn(q) ==
    /\ pc[q] = "awSleep"
    /\ AwaitResume(q, aidx[q], elapsed[q] + pollInterval)
    /\ UNCHANGED seenDone
    /\ UNCHANGED <<provFields, remote, ingestFrame, searchResults, clr>>
    /\ UNCHANGED otherThanProvider

\* the provider finishes indexing a content
IndexDone ==
    /\ \E c \in contents :
         /\ ~c.done
         /\ contents' = (contents \ {c}) \cup {[c EXCEPT !.done = TRUE]}
    /\ UNCHANGED <<provFields, collections, nextId, pc, ingestFrame, awaitFrame,
                   searchResults, clr>>
    /\ UNCHANGED otherThanProvider

(***************************************************************************)
(* A stand-alone awaitIndexing call: question 1's ingest has returned n    *)
(* documentIds, whose contents the provider is still indexing.             *)
(***************************************************************************)
InitAwait ==
    /\ client = TRUE
    /\ collectionCache = [n \in Names |-> IF n = getConversationContainerTag(QTag(1)) THEN 1 ELSE NoId]
    /\ collections = {[id |-> 1, name |-> getConversationContainerTag(QTag(1))]}
    /\ \E n \in 0..MaxDocs :
         /\ contents = {[id |-> 1 + i, session |-> i, collection |-> 1, done |-> FALSE] : i \in 1..n}
         /\ ingestedSessions = 1..n
         /\ documentIds = [q \in Questions |-> IF q = 1 THEN [i \in 1..n |-> 1 + i] ELSE <<>>]
         /\ nextId = n + 2
    /\ pc = [q \in Questions |-> IF q = 1 THEN "ingested" ELSE "off"]
    /\ op = [q \in Questions |-> "none"]
    /\ collectionId = [q \in Questions |-> IF q = 1 THEN 1 ELSE NoId]
    /\ sidx = [q \in Questions |-> 1]
    /\ attempts = [q \in Questions |-> IF q = 1 THEN 1 ELSE 0]
    /\ aidx = [q \in Questions |-> 1]
    /\ elapsed = [q \in Questions |-> 0]
    /\ seenDone = [q \in Questions |-> {}]
    /\ latePoll = [q \in Questions |-> FALSE]
    /\ timedOut = [q \in Questions |-> FALSE]
    /\ searchResults = [q \in Questions |-> {}]
    /\ clr = NoClear
    /\ CleanupOff
    /\ EvalOff
    /\ TagOff
    /\ SelectionOff

AwaitStep(q) ==
    \/ AwaitCall(q)
    \/ AwaitPollReturn(q)
    \/ AwaitSleepReturn(q)

NextAwait ==
    \/ \E q \in Questions : AwaitStep(q)
    \/ IndexDone

SpecAwait == InitAwait /\ [][NextAwait]_vars

\* every call and every sleep completes
FairSpecAwait == SpecAwait /\ \A q \in Questions : WF_vars(AwaitStep(q))
(***************************************************************************)
(* C1: whenever awaitIndexing returns normally, isContentDone has returned *)
(* true for every documentId of the IngestResult (a timeout is an error).  *)
(***************************************************************************)
C1_ReturnMeansAllDone ==
    \A q \in Questions :
        pc[q] = "indexed" =>
            \A i \in 1..Len(documentIds[q]) : documentIds[q][i] \in seenDone[q]

(***************************************************************************)
(* C2: awaitIndexing never blocks forever: when every isContentDone call   *)
(* and every sleep completes, a call that has begun returns or throws,     *)
(* whatever the provider reports, and no isContentDone request is issued   *)
(* once the timeout, measured from the start of the call, has elapsed.     *)
(***************************************************************************)
AwaitRunning(q) == pc[q] \in {"ingested", "awPoll", "awSleep"}

AwaitEnded(q) == pc[q] \in {"indexed", "awaitThrown"}

C2_NeverBlocksForever ==
    /\ [](\A q \in Questions : ~latePoll[q])
    /\ \A q \in Questions : AwaitRunning(q) ~> AwaitEnded(q)

\* a call that ended after the timeout although a content was never reported done
C2_Witness ==
    /\ pc[1] = "indexed"
    /\ timedOut[1]
    /\ \E c \in contents : ~c.done

(***************************************************************************)
(* getOrCreateCollection (index.ts 77-107), entered from ingest and from   *)
(* search, and the code of ingest (109-151) and search (183-211) that runs *)
(* when it returns.                                                        *)
(***************************************************************************)
Thrown(operation) == IF operation = "ingest" THEN "ingestThrown" ELSE "searchThrown"

\* the condition under which ingest skips a session: this.ingestedSessions.has(sessionId)
AlreadyIngested(sessionId, ingested) == sessionId \in ingested

\* the position of the first session from i on that ingest does not skip
FirstNew(q, i, ingested) ==
    LET new == {j \in i..Len(QSessions(q)) : ~AlreadyIngested(QSessions(q)[j], ingested)}
    IN IF new = {} THEN Len(QSessions(q)) + 1
       ELSE CHOOSE j \in new : \A k \in new : j <= k

\* for (const session of sessions), from position i: the sessions already ingested
\* are skipped, then ingestText is sent for the next one, or { documentIds } returned
IngestResume(q, i, ingested) ==
    LET j == FirstNew(q, i, ingested) IN
    IF j > Len(QSessions(q))
    THEN /\ pc' = [pc EXCEPT ![q] = "ingested"]
         /\ sidx' = [sidx EXCEPT ![q] = 1]
    ELSE /\ pc' = [pc EXCEPT ![q] = "ingText"]
         /\ sidx' = [sidx EXCEPT ![q] = j]

\* getOrCreateCollection has returned id to the method that called it
GocReturn(q, operation, id) ==
    IF operation = "ingest"
    THEN /\ collectionId' = [collectionId EXCEPT ![q] = id]
         /\ IngestResume(q, 1, ingestedSessions)
    ELSE \* search sends retrieveSources
         /\ collectionId' = [collectionId EXCEPT ![q] = id]
         /\ pc' = [pc EXCEPT ![q] = "retrieve"]
         /\ UNCHANGED sidx

\* the guard on this.client and the cache check; a miss sends queryCollections
GocEnter(q, name, operation) ==
    /\ op' = [op EXCEPT ![q] = operation]
    /\ IF ~client
       THEN /\ pc' = [pc EXCEPT ![q] = Thrown(operation)]
            /\ UNCHANGED <<collectionId, sidx>>
       ELSE IF collectionCache[name] # NoId
       THEN GocReturn(q, operation, collectionCache[name])
       ELSE /\ pc' = [pc EXCEPT ![q] = "gocQuery"]
            /\ UNCHANGED <<collectionId, sidx>>

\* queryCollections answers: an exact match is cached, none sends createCollection
GocQueryReturn(q) ==
    LET name == getConversationContainerTag(QTag(q))
        matches == {c \in collections : c.name = name}
    IN
    /\ pc[q] = "gocQuery"
    /\ \E threw \in BOOLEAN :
         IF threw
         THEN /\ pc' = [pc EXCEPT ![q] = Thrown(op[q])]
              /\ UNCHANGED <<collectionCache, collectionId, sidx>>
         ELSE IF matches # {}
         THEN \E m \in matches :
                /\ collectionCache' = [collectionCache EXCEPT ![name] = m.id]
                /\ GocReturn(q, op[q], m.id)
         ELSE /\ pc' = [pc EXCEPT ![q] = "gocCreate"]
              /\ UNCHANGED <<collectionCache, collectionId, sidx>>
    /\ UNCHANGED <<client, ingestedSessions, remote, op, documentIds, attempts,
                   awaitFrame, searchResults, clr>>
    /\ UNCHANGED otherThanProvider

\* createCollection answers: the new collection is cached, or the call failed
GocCreateReturn(q) ==
    LET name == getConversationContainerTag(QTag(q)) IN
    /\ pc[q] = "gocCreate"
    /\ \E failed \in BOOLEAN :
         IF failed
         THEN /\ pc' = [pc EXCEPT ![q] = Thrown(op[q])]
              /\ UNCHANGED <<collectionCache, collectionId, sidx, collections, nextId>>
         ELSE /\ collections' = collections \cup {[id |-> nextId, name |-> name]}
              /\ nextId' = nextId + 1
              /\ collectionCache' = [collectionCache EXCEPT ![name] = nextId]
              /\ GocReturn(q, op[q], nextId)
    /\ UNCHANGED <<client, ingestedSessions, contents, op, documentIds, attempts,
                   awaitFrame, searchResults, clr>>
    /\ UNCHANGED otherThanProvider

(***************************************************************************)
(* initialize (index.ts 52-75), ingest (109-151), search (183-211).        *)
(***************************************************************************)
Initialize ==
    /\ ~client
    /\ client' = TRUE
    /\ UNCHANGED <<collectionCache, ingestedSessions, remote, pc, ingestFrame,
                   awaitFrame, searchResults, clr>>
    /\ UNCHANGED otherThanProvider

ClearIdle == clr.pc \in {"none", "returned", "raised"}

\* the pipeline calls ingest for q: the first time, or again after a failed ingest
IngestCall(q) ==
    /\ \/ pc[q] = "idle"
       \/ pc[q] = "ingestThrown" /\ attempts[q] < MaxAttempts
    /\ clr.pc = "none"
    /\ attempts' = [attempts EXCEPT ![q] = @ + 1]
    /\ documentIds' = [documentIds EXCEPT ![q] = <<>>]
    /\ GocEnter(q, getConversationContainerTag(QTag(q)), "ingest")
    /\ UNCHANGED <<provFields, remote, awaitFrame, searchResults, clr>>
    /\ UNCHANGED otherThanProvider

\* ingestText answers: with an id, without one, or it fails
IngestTextReturn(q) ==
    LET session == QSessions(q)[sidx[q]] IN
    /\ pc[q] = "ingText"
    /\ \E outcome \in {"id", "noId", "throw"} :
         CASE outcome = "id" ->
                /\ contents' = contents \cup
                       {[id |-> nextId, session |-> session,
                         collection |-> collectionId[q], done |-> FALSE]}
                /\ nextId' = nextId + 1
                /\ documentIds' = [documentIds EXCEPT ![q] = Append(@, nextId)]
                /\ ingestedSessions' = ingestedSessions \cup {session}
                /\ IngestResume(q, sidx[q] + 1, ingestedSessions \cup {session})
           [] outcome = "noId" ->
                /\ IngestResume(q, sidx[q] + 1, ingestedSessions)
                /\ UNCHANGED <<contents, nextId, documentIds, ingestedSessions>>
           [] outcome = "throw" ->
                /\ pc' = [pc EXCEPT ![q] = "ingestThrown"]
                /\ sidx' = [sidx EXCEPT ![q] = 1]
                /\ UNCHANGED <<contents, nextId, documentIds, ingestedSessions>>
    /\ UNCHANGED <<client, collectionCache, collections, op, collectionId, attempts,
                   awaitFrame, searchResults, clr>>
    /\ UNCHANGED otherThanProvider

SearchCall(q) ==
    /\ pc[q] = "indexed"
    /\ GocEnter(q, getConversationContainerTag(QTag(q)), "search")
    /\ UNCHANGED <<provFields, remote, documentIds, attempts, awaitFrame,
                   searchResults, clr>>
    /\ UNCHANGED otherThanProvider

\* what retrieveSources can return from a collection: its indexed contents
Indexed(id) == {c.session : c \in {d \in contents : d.collection = id /\ d.done}}

\* retrieveSources answers, or fails and the error is rethrown
RetrieveReturn(q) ==
    /\ pc[q] = "retrieve"
    /\ \E threw \in BOOLEAN :
         IF threw
         THEN /\ pc' = [pc EXCEPT ![q] = "searchThrown"]
              /\ UNCHANGED searchResults
         ELSE /\ pc' = [pc EXCEPT ![q] = "searched"]
              /\ searchResults' = [searchResults EXCEPT ![q] = Indexed(collectionId[q])]
    /\ UNCHANGED <<provFields, remote, ingestFrame, awaitFrame, clr>>
    /\ UNCHANGED otherThanProvider

(***************************************************************************)
(* clear (index.ts 213-256), called for a completed run: once the calls of *)
(* every question are over.                                                *)
(***************************************************************************)
Over(q) ==
    \/ pc[q] \in {"off", "searched", "awaitThrown", "searchThrown"}
    \/ pc[q] = "ingestThrown" /\ attempts[q] >= MaxAttempts

\* no collection of that name exists at the provider: never created, or deleted
Absent(name) == ~\E c \in collections : c.name = name

\* where a failure inside the try block ends: the catch logs a warning and returns
ClearRethrown == "raised"

ClearCaught == "returned"

\* the call begins: the guard on this.client, then the cache is read
ClearEnter(t) ==
    LET name == getConversationContainerTag(t) IN
    /\ ClearIdle
    /\ IF ~client
       THEN clr' = [pc |-> "raised", tag |-> t, id |-> NoId, again |-> Absent(name),
                    failed |-> FALSE]
       ELSE IF collectionCache[name] = NoId
       THEN clr' = [pc |-> "clrQuery", tag |-> t, id |-> NoId, again |-> Absent(name),
                    failed |-> FALSE]
       ELSE clr' = [pc |-> "clrCachedContents", tag |-> t, id |-> collectionCache[name],
                    again |-> Absent(name), failed |-> FALSE]
    /\ UNCHANGED <<provFields, remote, pc, ingestFrame, awaitFrame, searchResults>>

ClearCall(t) ==
    /\ \A q \in Questions : Over(q)
    /\ ClearEnter(t)
    /\ UNCHANGED otherThanProvider

\* queryCollections answers: no exact match returns, a match is deleted
ClearQueryReturn ==
    LET name == getConversationContainerTag(clr.tag)
        matches == {c \in collections : c.name = name}
    IN
    /\ clr.pc = "clrQuery"
    /\ \E threw \in BOOLEAN :
         IF threw THEN clr' = [clr EXCEPT !.pc = ClearCaught, !.failed = TRUE]
         ELSE IF matches = {} THEN clr' = [clr EXCEPT !.pc = "returned"]
         ELSE \E m \in matches : clr' = [clr EXCEPT !.pc = "clrFoundContents", !.id = m.id]
    /\ UNCHANGED <<provFields, remote, pc, ingestFrame, awaitFrame, searchResults>>
    /\ UNCHANGED otherThanProvider

\* deleteAllContents({collections: [{id}], limit: 10000}) answers
ClearDeleteContentsReturn ==
    /\ clr.pc \in {"clrFoundContents", "clrCachedContents"}
    /\ \E threw \in BOOLEAN :
         IF threw \/ ~\E c \in collections : c.id = clr.id
         THEN /\ clr' = [clr EXCEPT !.pc = ClearCaught, !.failed = TRUE]
              /\ UNCHANGED contents
         ELSE /\ contents' = {c \in contents : c.collection # clr.id}
              /\ clr' = [clr EXCEPT !.pc =
                            IF clr.pc = "clrFoundContents" THEN "clrFoundCollection"
                                                           ELSE "clrCachedCollection"]
    /\ UNCHANGED <<provFields, collections, nextId, pc, ingestFrame, awaitFrame, searchResults>>
    /\ UNCHANGED otherThanProvider

\* deleteCollection(id) answers; the branch that read the cache also deletes its entry
ClearDeleteCollectionReturn ==
    LET name == getConversationContainerTag(clr.tag) IN
    /\ clr.pc \in {"clrFoundCollection", "clrCachedCollection"}
    /\ \E threw \in BOOLEAN :
         IF threw \/ ~\E c \in collections : c.id = clr.id
         THEN /\ clr' = [clr EXCEPT !.pc = ClearCaught, !.failed = TRUE]
              /\ UNCHANGED <<collections, collectionCache>>
         ELSE /\ collections' = {c \in collections : c.id # clr.id}
              /\ collectionCache' =
                     IF clr.pc = "clrCachedCollection"
                     THEN [collectionCache EXCEPT ![name] = NoId]
                     ELSE collectionCache
              /\ clr' = [clr EXCEPT !.pc = "returned"]
    /\ UNCHANGED <<client, ingestedSessions, contents, nextId, pc, ingestFrame,
                   awaitFrame, searchResults>>
    /\ UNCHANGED otherThanProvider

(***************************************************************************)
(* One provider instance driven by the pipeline: the questions' calls      *)
(* interleave at their awaits.                                             *)
(***************************************************************************)
InitProvider ==
    /\ client = FALSE
    /\ collectionCache = [n \in Names |-> NoId]
    /\ ingestedSessions = {}
    /\ collections = {}
    /\ contents = {}
    /\ nextId = 1
    /\ pc = [q \in Questions |-> "idle"]
    /\ op = [q \in Questions |-> "none"]
    /\ collectionId = [q \in Questions |-> NoId]
    /\ sidx = [q \in Questions |-> 1]
    /\ documentIds = [q \in Questions |-> <<>>]
    /\ attempts = [q \in Questions |-> 0]
    /\ aidx = [q \in Questions |-> 1]
    /\ elapsed = [q \in Questions |-> 0]
    /\ seenDone = [q \in Questions |-> {}]
    /\ latePoll = [q \in Questions |-> FALSE]
    /\ timedOut = [q \in Questions |-> FALSE]
    /\ searchResults = [q \in Questions |-> {}]
    /\ clr = NoClear
    /\ CleanupOff
    /\ EvalOff
    /\ TagOff
    /\ SelectionOff

\* the sleeps explored here: the first MaxPolls, and the one after a slow request
AwaitSleepCapped(q) ==
    /\ elapsed[q] < MaxPolls * pollInterval \/ elapsed[q] >= timeout
    /\ AwaitSleepReturn(q)

NextProvider ==
    \/ Initialize
    \/ \E q \in Questions :
         \/ IngestCall(q)
         \/ GocQueryReturn(q)
         \/ GocCreateReturn(q)
         \/ IngestTextReturn(q)
         \/ AwaitCall(q)
         \/ AwaitPollReturn(q)
         \/ AwaitSleepCapped(q)
         \/ SearchCall(q)
         \/ RetrieveReturn(q)
    \/ IndexDone

SpecProvider == InitProvider /\ [][NextProvider]_vars

(***************************************************************************)
(* The same instance used for one question and then cleared.               *)
(***************************************************************************)
InitClear ==
    /\ client = FALSE
    /\ collectionCache = [n \in Names |-> NoId]
    /\ ingestedSessions = {}
    /\ collections = {}
    /\ contents = {}
    /\ nextId = 1
    /\ pc = [q \in Questions |-> IF q = 1 THEN "idle" ELSE "off"]
    /\ op = [q \in Questions |-> "none"]
    /\ collectionId = [q \in Questions |-> NoId]
    /\ sidx = [q \in Questions |-> 1]
    /\ documentIds = [q \in Questions |-> <<>>]
    /\ attempts = [q \in Questions |-> 0]
    /\ aidx = [q \in Questions |-> 1]
    /\ elapsed = [q \in Questions |-> 0]
    /\ seenDone = [q \in Questions |-> {}]
    /\ latePoll = [q \in Questions |-> FALSE]
    /\ timedOut = [q \in Questions |-> FALSE]
    /\ searchResults = [q \in Questions |-> {}]
    /\ clr = NoClear
    /\ CleanupOff
    /\ EvalOff
    /\ TagOff
    /\ SelectionOff

NextClear ==
    \/ NextProvider
    \/ \E t \in ClearTags : ClearCall(t)
    \/ ClearQueryReturn
    \/ ClearDeleteContentsReturn
    \/ ClearDeleteCollectionReturn

SpecClear == InitClear /\ [][NextClear]_vars

(***************************************************************************)
(* C3: phase order Ingest -> Index -> Search per question: once ingest     *)
(* has succeeded for a question and awaitIndexing has returned normally,   *)
(* every session passed to that ingest is indexed in the collection that   *)
(* search will read for the question.  Stated for the runs the claim       *)
(* names: every session of the question has been accepted by the provider  *)
(* (by this ingest, an earlier attempt or another question of the          *)
(* conversation) and awaitIndexing did not run into its timeout.           *)
(***************************************************************************)
\* the collection search reads for q: the cached one (ingest has cached it)
SearchCollection(q) == collectionCache[getConversationContainerTag(QTag(q))]

C3_IndexedBeforeSearch ==
    \A q \in Questions :
        (/\ pc[q] = "indexed"
         /\ ~timedOut[q]
         /\ \A i \in 1..Len(QSessions(q)) : QSessions(q)[i] \in ingestedSessions)
        => \A i \in 1..Len(QSessions(q)) :
               QSessions(q)[i] \in Indexed(SearchCollection(q))

(***************************************************************************)
(* C4: clear is idempotent on an initialized provider: a call for a tag    *)
(* whose collection is already deleted, or was never created, does not     *)
(* raise, and none of its steps changes the provider's collections and     *)
(* contents or the collection cache.                                       *)
(***************************************************************************)
C4_ClearIdempotent ==
    [][(/\ clr' # clr
        /\ client
        /\ Absent(getConversationContainerTag(clr'.tag)))
       => /\ clr'.pc # "raised"
          /\ collections' = collections
          /\ contents' = contents
          /\ collectionCache' = collectionCache]_vars

\* a second clear of question 1's tag, whose collection an earlier clear deleted,
\* has returned
C4_Witness ==
    /\ clr.pc = "returned"
    /\ clr.again
    /\ clr.tag = QTag(1)
    /\ nextId > 1
    /\ collections = {}

(***************************************************************************)
(* cleanupCommand (cleanup.ts 32-123).                                     *)
(***************************************************************************)
\* the providers getAvailableProviders() lists, and a name it does not list
AvailableProviders == {"graphlit", "mem0"}

ProviderNames == AvailableProviders \cup {"unknown"}

\* parseCleanupArgs: null, --all, or -r <runId>
ArgChoices ==
    {[parsed |-> FALSE, all |-> FALSE, runId |-> MissingRun],
     [parsed |-> TRUE, all |-> TRUE, runId |-> MissingRun]}
    \cup {[parsed |-> TRUE, all |-> FALSE, runId |-> r] : r \in Runs \cup {MissingRun}}

\* listRuns(): the stored runs, in an order the store chooses
Orders(S) ==
    {f \in [1..Cardinality(S) -> S] : \A i, j \in 1..Cardinality(S) : i # j => f[i] # f[j]}

\* checkpointManager.load(runId): the checkpoint, or nothing
Loads(runId) == runId \in store /\ ckLoadable[runId]

\* "Group runs by provider": a run that does not load is skipped with a warning
RECURSIVE GroupRuns(_, _)
GroupRuns(ids, map) ==
    IF ids = <<>> THEN map
    ELSE LET runId == Head(ids)
             name == ckProvider[runId]
             at == {i \in 1..Len(map) : map[i].name = name}
         IN IF ~Loads(runId) THEN GroupRuns(Tail(ids), map)
            ELSE IF at = {}
            THEN GroupRuns(Tail(ids), Append(map, [name |-> name, runs |-> <<runId>>]))
            ELSE GroupRuns(Tail(ids),
                           [map EXCEPT ![CHOOSE i \in at : TRUE].runs = Append(@, runId)])

\* [...new Set(Object.values(checkpoint.questions).map(q => q.containerTag))]
ContainerTagsNoSet(runId) == RunQuestionTags(runId)

ContainerTagsOf(runId) == Dedup(RunQuestionTags(runId))

\* the arguments are parsed, the runs listed and grouped
CleanupStart ==
    /\ cpc = "start"
    /\ IF ~cargs.parsed
       THEN /\ cpc' = "usage"
            /\ UNCHANGED <<runIds, runsByProvider>>
       ELSE IF cargs.all
       THEN IF store = {}
            THEN /\ cpc' = "noRuns"
                 /\ UNCHANGED <<runIds, runsByProvider>>
            ELSE \E order \in Orders(store) :
                   /\ runIds' = order
                   /\ runsByProvider' = GroupRuns(order, <<>>)
                   /\ cpc' = "providers"
       ELSE IF cargs.runId \notin store
       THEN /\ cpc' = "notFound"
            /\ UNCHANGED <<runIds, runsByProvider>>
       ELSE /\ runIds' = <<cargs.runId>>
            /\ runsByProvider' = GroupRuns(<<cargs.runId>>, <<>>)
            /\ cpc' = "providers"
    /\ UNCHANGED <<ckStore, cargs, pidx, ridx, containerTags, tidx, cleanupCounts, provVars>>
    /\ UNCHANGED otherThanCleanup

\* for (const [providerName, providerRunIds] of runsByProvider): an unknown provider
\* is skipped, a known one is created and initialized
CleanupProvider ==
    /\ cpc = "providers"
    /\ IF pidx > Len(runsByProvider)
       THEN /\ cpc' = "delete"
            /\ UNCHANGED <<pidx, ridx, provFields>>
       ELSE IF runsByProvider[pidx].name \notin AvailableProviders
       THEN /\ pidx' = pidx + 1
            /\ UNCHANGED <<cpc, ridx, provFields>>
       ELSE /\ cpc' = "runs"
            /\ ridx' = 1
            /\ UNCHANGED pidx
            /\ IF runsByProvider[pidx].name = "graphlit"
               THEN /\ client' = TRUE
                    /\ collectionCache' = [n \in Names |-> NoId]
                    /\ ingestedSessions' = {}
               ELSE UNCHANGED provFields
    /\ UNCHANGED <<ckStore, cargs, runIds, runsByProvider, containerTags, tidx, cleanupCounts>>
    /\ UNCHANGED <<remote, pc, ingestFrame, awaitFrame, searchResults, clr>>
    /\ UNCHANGED otherThanCleanup

\* for (const runId of providerRunIds): the checkpoint is loaded, its tags collected
CleanupRun ==
    /\ cpc = "runs"
    /\ IF ridx > Len(runsByProvider[pidx].runs)
       THEN /\ pidx' = pidx + 1
            /\ cpc' = "providers"
            /\ UNCHANGED <<containerTags, tidx>>
       ELSE /\ containerTags' = ContainerTagsOf(runsByProvider[pidx].runs[ridx])
            /\ tidx' = 1
            /\ cpc' = "tags"
            /\ UNCHANGED pidx
    /\ UNCHANGED <<ckStore, cargs, runIds, runsByProvider, ridx, cleanupCounts, provVars>>
    /\ UNCHANGED otherThanCleanup

\* for (const containerTag of containerTags): provider.clear(containerTag) is called
CleanupClearCall ==
    LET runId == runsByProvider[pidx].runs[ridx] IN
    /\ cpc = "tags"
    /\ IF tidx > Len(containerTags)
       THEN /\ ridx' = ridx + 1
            /\ cpc' = "runs"
            /\ UNCHANGED <<clearCalls, clr>>
       ELSE /\ clearCalls' = [clearCalls EXCEPT ![<<runId, containerTags[tidx]>>] = @ + 1]
            /\ UNCHANGED ridx
            /\ IF runsByProvider[pidx].name = "graphlit"
               THEN /\ ClearEnter(containerTags[tidx])
                    /\ cpc' = "clearing"
               ELSE /\ cpc' = "clearingOther"
                    /\ UNCHANGED clr
    /\ UNCHANGED <<ckStore, cargs, runIds, runsByProvider, pidx, containerTags, tidx,
                   totalCleaned, totalFailed, clearThrown>>
    /\ UNCHANGED <<provFields, remote, pc, ingestFrame, awaitFrame, searchResults>>
    /\ UNCHANGED otherThanCleanup

\* the try block around provider.clear: totalCleaned++, or the catch's totalFailed++
ClearSettled(threw) ==
    LET runId == runsByProvider[pidx].runs[ridx] IN
    /\ IF threw
       THEN /\ totalFailed' = totalFailed + 1
            /\ clearThrown' = clearThrown \cup {<<runId, containerTags[tidx]>>}
            /\ UNCHANGED totalCleaned
       ELSE /\ totalCleaned' = totalCleaned + 1
            /\ UNCHANGED <<totalFailed, clearThrown>>
    /\ tidx' = tidx + 1
    /\ cpc' = "tags"
    /\ UNCHANGED <<ckStore, cargs, runIds, runsByProvider, pidx, ridx, containerTags,
                   clearCalls, provVars>>
    /\ UNCHANGED otherThanCleanup

\* GraphlitProvider.clear has returned or raised
CleanupClearReturn ==
    /\ cpc = "clearing"
    /\ clr.pc \in {"returned", "raised"}
    /\ ClearSettled(clr.pc = "raised")

\* the clear of another provider returns or throws
CleanupOtherClearReturn ==
    /\ cpc = "clearingOther"
    /\ \E threw \in BOOLEAN : ClearSettled(threw)

\* "Delete local run folders when using --all"
CleanupDelete ==
    /\ cpc = "delete"
    /\ store' = IF cargs.all THEN store \ Range(runIds) ELSE store
    /\ cpc' = "done"
    /\ UNCHANGED <<ckLoadable, ckProvider, cargs, runIds, runsByProvider, pidx, ridx,
                   containerTags, tidx, cleanupCounts, provVars>>
    /\ UNCHANGED otherThanCleanup

\* the conversation-level names of the runs' tags, numbered
RECURSIVE AllRunTags(_)
AllRunTags(n) == IF n = 0 THEN <<>> ELSE AllRunTags(n - 1) \o RunQuestionTags(n)

NameList ==
    Dedup([i \in 1..Len(AllRunTags(NumRuns)) |->
               getConversationContainerTag(AllRunTags(NumRuns)[i])])

\* the command starts with every run's collections at the provider, each with a content
InitCleanup ==
    /\ client = FALSE
    /\ collectionCache = [n \in Names |-> NoId]
    /\ ingestedSessions = {}
    /\ collections = {[id |-> i, name |-> NameList[i]] : i \in 1..Len(NameList)}
    /\ contents = {[id |-> Len(NameList) + i, session |-> 1, collection |-> i, done |-> TRUE] :
                       i \in 1..Len(NameList)}
    /\ nextId = 2 * Len(NameList) + 1
    /\ pc = [q \in Questions |-> "off"]
    /\ op = [q \in Questions |-> "none"]
    /\ collectionId = [q \in Questions |-> NoId]
    /\ sidx = [q \in Questions |-> 1]
    /\ documentIds = [q \in Questions |-> <<>>]
    /\ attempts = [q \in Questions |-> 0]
    /\ aidx = [q \in Questions |-> 1]
    /\ elapsed = [q \in Questions |-> 0]
    /\ seenDone = [q \in Questions |-> {}]
    /\ latePoll = [q \in Questions |-> FALSE]
    /\ timedOut = [q \in Questions |-> FALSE]
    /\ searchResults = [q \in Questions |-> {}]
    /\ clr = NoClear
    /\ store = Runs
    /\ ckLoadable \in [Runs -> BOOLEAN]
    /\ ckProvider \in [Runs -> ProviderNames]
    /\ cpc = "start"
    /\ cargs \in ArgChoices
    /\ runIds = <<>>
    /\ runsByProvider = <<>>
    /\ pidx = 1
    /\ ridx = 1
    /\ containerTags = <<>>
    /\ tidx = 1
    /\ totalCleaned = 0
    /\ totalFailed = 0
    /\ clearCalls = [x \in Runs \X RunTags |-> 0]
    /\ clearThrown = {}
    /\ EvalOff
    /\ TagOff
    /\ SelectionOff

NextCleanup ==
    \/ CleanupStart
    \/ CleanupProvider
    \/ CleanupRun
    \/ CleanupClearCall
    \/ ClearQueryReturn
    \/ ClearDeleteContentsReturn
    \/ ClearDeleteCollectionReturn
    \/ CleanupClearReturn
    \/ CleanupOtherClearReturn
    \/ CleanupDelete

SpecCleanup == InitCleanup /\ [][NextCleanup]_vars

(***************************************************************************)
(* C5: for every run the cleanup command processes (its checkpoint loads   *)
(* and its provider is known), provider.clear has been called exactly once *)
(* for each distinct containerTag of the run's questions when the command  *)
(* ends, whichever of the clear calls threw.                               *)
(***************************************************************************)
Processed(r) ==
    /\ r \in Range(runIds)
    /\ Loads(r)
    /\ ckProvider[r] \in AvailableProviders

C5_ClearOncePerTag ==
    cpc \in {"delete", "done"} =>
        \A r \in Runs :
            Processed(r) =>
                \A t \in RunTags :
                    clearCalls[<<r, t>>] = IF t \in Range(RunQuestionTags(r)) THEN 1 ELSE 0

\* two runs were processed, and the clear of the first tag of the run cleaned first threw
C5_Witness ==
    /\ cpc = "delete"
    /\ \A r \in Runs : Processed(r)
    /\ Len(runsByProvider) = 1
    /\ <<runsByProvider[1].runs[1], RunQuestionTags(runsByProvider[1].runs[1])[1]>> \in clearThrown

(***************************************************************************)
(* The evaluation script (evaluate.ts): evaluateAll and what it calls.     *)
(***************************************************************************)
NumFiles == 3
MaxCrashes == 1

\* resultFiles: the selected result files, sorted
Files == 1..NumFiles

resultFiles == [i \in Files |-> i]

\* a result file parses and has searchResults, does not parse, or has no searchResults
ResultKinds == {"ok", "unreadable", "noSearchResults"}

\* resultData.metadata.questionId
QuestionIdOf(f) == resultQid[f]

Ids(evals) == {evals[i].questionId : i \in 1..Len(evals)}

\* (correct / total) * 100 as toFixed(2) rounds it, in hundredths of a percent
AccuracyCutOff(total, correct) ==
    IF total > 0 THEN (correct * 10000) \div total ELSE 0

Accuracy(total, correct) ==
    IF total > 0 THEN (correct * 20000 + total) \div (2 * total) ELSE 0

Digit(d) == <<"0", "1", "2", "3", "4", "5", "6", "7", "8", "9">>[d + 1]

\* the decimal digits of a natural number
RECURSIVE Decimal(_)
Decimal(n) == IF n < 10 THEN <<Digit(n)>> ELSE Append(Decimal(n \div 10), Digit(n % 10))

\* accuracy.toFixed(2) + '%' for an accuracy of h hundredths
toFixed2Percent(h) ==
    Decimal(h \div 100) \o <<".", Digit((h % 100) \div 10), Digit(h % 10), "%">>

\* total, correct and accuracy as the loop body and the final summary compute them
Figures(evals) ==
    LET total == Len(evals)
        correct == Cardinality({i \in 1..Len(evals) : evals[i].label = 1})
    IN [totalQuestions |-> total, correctAnswers |-> correct,
        accuracy |-> toFixed2Percent(Accuracy(total, correct))]

\* the object writeFileSync serialises
Output(evals) == [state |-> "valid", metadata |-> Figures(evals), evaluations |-> evals]

\* a file JSON.parse rejects: cut off, or damaged
Unparsable == [state |-> "unparsable"]

\* generateAnswer: the model's text, or the text of the error
generateAnswer(ok) == IF ok THEN "answer" ELSE "Error generating answer"

\* judgeAnswer: the parsed judgement, or label 0 with the error
JudgeOutcomes == {"1", "0", "fail"}

judgeAnswer(outcome) ==
    IF outcome = "fail" THEN [label |-> 0, explanation |-> "Evaluation error"]
    ELSE [label |-> IF outcome = "1" THEN 1 ELSE 0, explanation |-> "judged"]

\* processedQuestionIds.has(questionId)
NeverEvaluated(questionId, processed) == FALSE

AlreadyEvaluated(questionId, processed) == questionId \in processed

\* the catch around one file's processing logs and lets the loop go on
FileErrorEscapes == "aborted"

FileErrorCaught == "loop"

\* the existing output is read: resumed when it parses, a fresh start when it does not
EvalLoad ==
    /\ epc = "start"
    /\ IF outputFile.state = "valid"
       THEN /\ evaluations' = outputFile.evaluations
            /\ processedQuestionIds' = Ids(outputFile.evaluations)
            /\ loadFailed' = FALSE
       ELSE /\ evaluations' = <<>>
            /\ processedQuestionIds' = {}
            /\ loadFailed' = (outputFile.state = "unparsable")
    /\ fidx' = 1
    /\ epc' = "loop"
    /\ UNCHANGED <<evalFiles, hypothesis, calls, summary, durable, crashes, tries>>
    /\ UNCHANGED otherThanEval

\* one turn of the loop up to the answer request, or the final summary after the loop
EvalNextFile ==
    /\ epc = "loop"
    /\ IF fidx > Len(resultFiles)
       THEN /\ summary' = Figures(evaluations)
            /\ epc' = "done"
            /\ UNCHANGED <<fidx, calls, tries>>
       ELSE LET f == resultFiles[fidx] IN
            IF resultKind[f] = "unreadable"
            THEN /\ epc' = FileErrorCaught
                 /\ fidx' = fidx + 1
                 /\ UNCHANGED <<summary, calls, tries>>
            ELSE IF AlreadyEvaluated(QuestionIdOf(f), processedQuestionIds)
            THEN /\ fidx' = fidx + 1
                 /\ UNCHANGED <<epc, summary, calls, tries>>
            ELSE IF resultKind[f] = "noSearchResults"
            THEN /\ epc' = FileErrorCaught
                 /\ fidx' = fidx + 1
                 /\ UNCHANGED <<summary, calls, tries>>
            ELSE /\ calls' = [calls EXCEPT !.answer = @ + 1]
                 /\ tries' = [tries EXCEPT ![QuestionIdOf(f)] = @ + 1]
                 /\ epc' = "answering"
                 /\ UNCHANGED <<fidx, summary>>
    /\ UNCHANGED <<evalFiles, evaluations, processedQuestionIds, hypothesis, loadFailed,
                   durable, crashes>>
    /\ UNCHANGED otherThanEval

\* generateAnswer returns, and judgeAnswer is called with what it returned
AnswerReturn ==
    /\ epc = "answering"
    /\ \E ok \in BOOLEAN : hypothesis' = generateAnswer(ok)
    /\ calls' = [calls EXCEPT !.judge = @ + 1]
    /\ epc' = "judging"
    /\ UNCHANGED <<evalFiles, evaluations, processedQuestionIds, fidx, summary, loadFailed,
                   durable, crashes, tries>>
    /\ UNCHANGED otherThanEval

\* judgeAnswer returns, the evaluation is pushed, and writeFileSync opens outputPath
JudgeReturn ==
    /\ epc = "judging"
    /\ \E outcome \in JudgeOutcomes :
         evaluations' = Append(evaluations,
                               [questionId |-> QuestionIdOf(resultFiles[fidx]),
                                hypothesis |-> hypothesis,
                                label |-> judgeAnswer(outcome).label,
                                explanation |-> judgeAnswer(outcome).explanation])
    /\ hypothesis' = "none"
    /\ \E opened \in BOOLEAN :
         IF opened
         THEN /\ outputFile' = Unparsable
              /\ epc' = "saving"
              /\ UNCHANGED fidx
         ELSE /\ epc' = FileErrorCaught
              /\ fidx' = fidx + 1
              /\ UNCHANGED outputFile
    /\ UNCHANGED <<resultKind, resultQid, processedQuestionIds, evalGhosts>>
    /\ UNCHANGED otherThanEval

\* writeFileSync returns with the file written, or throws with the file cut off
SaveReturn ==
    /\ epc = "saving"
    /\ \E written \in BOOLEAN :
         IF written
         THEN /\ outputFile' = Output(evaluations)
              /\ durable' = durable \cup Ids(evaluations)
              /\ epc' = "sleeping"
              /\ UNCHANGED fidx
         ELSE /\ epc' = FileErrorCaught
              /\ fidx' = fidx + 1
              /\ UNCHANGED <<outputFile, durable>>
    /\ UNCHANGED <<resultKind, resultQid, evaluations, processedQuestionIds, hypothesis, calls, summary,
                   loadFailed, crashes, tries>>
    /\ UNCHANGED otherThanEval

\* the one-second pause after a save
SleepReturn ==
    /\ epc = "sleeping"
    /\ fidx' = fidx + 1
    /\ epc' = "loop"
    /\ UNCHANGED <<evalFiles, evaluations, processedQuestionIds, hypothesis, evalGhosts>>
    /\ UNCHANGED otherThanEval

\* the process is killed: its memory is gone, the file is as the kill found it
Crash ==
    /\ epc \in {"loop", "answering", "judging", "saving", "sleeping"}
    /\ crashes < MaxCrashes
    /\ crashes' = crashes + 1
    /\ epc' = "crashed"
    /\ evaluations' = <<>>
    /\ processedQuestionIds' = {}
    /\ fidx' = 1
    /\ hypothesis' = "none"
    /\ calls' = [answer |-> 0, judge |-> 0]
    /\ loadFailed' = FALSE
    /\ UNCHANGED <<evalFiles, summary, durable, tries>>
    /\ UNCHANGED otherThanEval

\* the script is started again
Restart ==
    /\ epc = "crashed"
    /\ epc' = "start"
    /\ UNCHANGED <<evalFiles, evaluations, processedQuestionIds, fidx, hypothesis, evalGhosts>>
    /\ UNCHANGED otherThanEval

\* what an earlier run of the script may have left in the output: evaluations of some of
\* the questions, in the files' order
PriorRecords ==
    {[questionId |-> q, hypothesis |-> "answer", label |-> l,
      explanation |-> "judged"] : q \in Files, l \in {0, 1}}

PriorEvaluations ==
    {e \in UNION {[1..n -> PriorRecords] : n \in 1..NumFiles} :
        \A i, j \in DOMAIN e : i < j => e[i].questionId < e[j].questionId}

\* nothing of the provider is in use
ProviderOff ==
    /\ client = FALSE
    /\ collectionCache = [n \in Names |-> NoId]
    /\ ingestedSessions = {}
    /\ collections = {}
    /\ contents = {}
    /\ nextId = 1
    /\ pc = [q \in Questions |-> "off"]
    /\ op = [q \in Questions |-> "none"]
    /\ collectionId = [q \in Questions |-> NoId]
    /\ sidx = [q \in Questions |-> 1]
    /\ documentIds = [q \in Questions |-> <<>>]
    /\ attempts = [q \in Questions |-> 0]
    /\ aidx = [q \in Questions |-> 1]
    /\ elapsed = [q \in Questions |-> 0]
    /\ seenDone = [q \in Questions |-> {}]
    /\ latePoll = [q \in Questions |-> FALSE]
    /\ timedOut = [q \in Questions |-> FALSE]
    /\ searchResults = [q \in Questions |-> {}]
    /\ clr = NoClear

\* the script starts: any kinds of result files, any output an earlier run left
EvalStart ==
    /\ ProviderOff
    /\ CleanupOff
    /\ TagOff
    /\ SelectionOff
    /\ resultKind \in [Files -> ResultKinds]
    /\ outputFile \in {[state |-> "absent"], Unparsable} \cup {Output(e) : e \in PriorEvaluations}
    /\ epc = "start"
    /\ evaluations = <<>>
    /\ processedQuestionIds = {}
    /\ fidx = 1
    /\ hypothesis = "none"
    /\ calls = [answer |-> 0, judge |-> 0]
    /\ summary = NoSummary
    /\ loadFailed = FALSE
    /\ durable = IF outputFile.state = "valid" THEN Ids(outputFile.evaluations) ELSE {}
    /\ crashes = 0
    /\ tries = [q \in Files |-> 0]

\* one result file per question
InitEval ==
    /\ resultQid = [f \in Files |-> f]
    /\ EvalStart

\* the second result file carries the questionId of the first
InitEvalDup ==
    /\ resultQid = [f \in Files |-> IF f = 2 THEN 1 ELSE f]
    /\ EvalStart

NextEval ==
    \/ EvalLoad
    \/ EvalNextFile
    \/ AnswerReturn
    \/ JudgeReturn
    \/ SaveReturn
    \/ SleepReturn

SpecEval == InitEval /\ [][NextEval]_vars

\* the event loop runs whatever is ready
FairSpecEval == SpecEval /\ WF_vars(NextEval)

NextEvalCrash ==
    \/ NextEval
    \/ Crash
    \/ Restart

SpecEvalCrash == InitEval /\ [][NextEvalCrash]_vars

SpecEvalDup == InitEvalDup /\ [][NextEvalCrash]_vars

PersistedIds == IF outputFile.state = "valid" THEN Ids(outputFile.evaluations) ELSE {}

\* every selected result file with a questionId has it in the persisted output
AllPresent ==
    \A i \in 1..Len(resultFiles) :
        resultKind[resultFiles[i]] # "unreadable" => QuestionIdOf(resultFiles[i]) \in PersistedIds

(***************************************************************************)
(* C6: while every questionId of the selected result files is in the       *)
(* persisted output, evaluateAll makes no answer call and no judge call    *)
(* and leaves the file at outputPath as it is, and the figures of its      *)
(* final summary are the persisted ones.                                   *)
(***************************************************************************)
C6_IdempotentResume ==
    /\ [][(AllPresent /\ epc # "off")
             => (outputFile' = outputFile /\ calls' = calls)]_vars
    /\ [](epc = "done" /\ AllPresent /\ outputFile.state = "valid"
            => summary = outputFile.metadata)

\* a re-run over a complete output has ended, having skipped every file
C6_Witness ==
    /\ epc = "done"
    /\ \A f \in Files : resultKind[f] = "ok"
    /\ processedQuestionIds = {QuestionIdOf(f) : f \in Files}
    /\ outputFile.state = "valid"
    /\ calls = [answer |-> 0, judge |-> 0]

(***************************************************************************)
(* C7: every evaluation in the persisted output has a hypothesis that a    *)
(* successful answer-generation call produced: none is empty and none is   *)
(* the text of a failed generation.                                        *)
(***************************************************************************)
C7_PersistedPhaseOrder ==
    outputFile.state = "valid" =>
        \A i \in 1..Len(outputFile.evaluations) :
            outputFile.evaluations[i].hypothesis = "answer"

(***************************************************************************)
(* C8: a failure while one result file is processed never aborts the run:  *)
(* the run reaches its final summary, and every selected file that can be  *)
(* evaluated has its question in the evaluations the summary aggregates.   *)
(***************************************************************************)
C8_PartialFailureIsolation ==
    /\ [](epc # "aborted")
    /\ [](epc = "done" =>
            /\ \A i \in 1..Len(resultFiles) :
                 resultKind[resultFiles[i]] = "ok"
                    => QuestionIdOf(resultFiles[i]) \in Ids(evaluations)
            /\ summary = Figures(evaluations))
    /\ <>(epc = "done")

\* the first file could not be read, the last one was evaluated in this run
C8_Witness ==
    /\ epc = "done"
    /\ resultKind[resultFiles[1]] = "unreadable"
    /\ resultKind[resultFiles[NumFiles]] = "ok"
    /\ QuestionIdOf(resultFiles[NumFiles]) \notin processedQuestionIds
    /\ QuestionIdOf(resultFiles[NumFiles]) \in Ids(evaluations)

(***************************************************************************)
(* C9: after a crash and a restart, every evaluation that a complete file  *)
(* at outputPath held before is among the evaluations the restarted run    *)
(* works with.                                                             *)
(***************************************************************************)
C9_CrashSafePersistence ==
    epc \in {"loop", "answering", "judging", "saving", "sleeping", "done"}
        => durable \subseteq Ids(evaluations)

(***************************************************************************)
(* C10: a run of evaluateAll that could not parse the persisted output     *)
(* does not go on as a fresh run that replaces it with its own output.     *)
(***************************************************************************)
C10_CorruptSurfaced == loadFailed => outputFile.state # "valid"

(***************************************************************************)
(* C11: the total that the persisted accuracy is computed from counts only *)
(* the questions whose answer call and judge call both succeeded; a        *)
(* question with a failed call is not in the denominator.                  *)
(***************************************************************************)
C11_FailedExcludedFromTotal ==
    outputFile.state = "valid" =>
        outputFile.metadata.totalQuestions =
            Cardinality({i \in 1..Len(outputFile.evaluations) :
                            /\ outputFile.evaluations[i].hypothesis = "answer"
                            /\ outputFile.evaluations[i].explanation = "judged"})

(***************************************************************************)
(* C12: no false success: a persisted evaluation has label 1 only if its   *)
(* hypothesis came from a successful answer generation and the judge call  *)
(* succeeded.                                                              *)
(***************************************************************************)
C12_NoFalseSuccess ==
    outputFile.state = "valid" =>
        \A i \in 1..Len(outputFile.evaluations) :
            outputFile.evaluations[i].label = 1 =>
                /\ outputFile.evaluations[i].hypothesis = "answer"
                /\ outputFile.evaluations[i].explanation = "judged"

\* the labels of a list of evaluations, in its order
Labels(evals) == [i \in 1..Len(evals) |-> evals[i].label]

\* the number a percentage text shows, in hundredths: its digits without the point
RECURSIVE ShownHundredths(_)
ShownHundredths(text) ==
    IF text = <<>> THEN 0
    ELSE LET c == text[Len(text)]
             rest == ShownHundredths(SubSeq(text, 1, Len(text) - 1))
         IN IF \E d \in 0..9 : Digit(d) = c
            THEN 10 * rest + (CHOOSE d \in 0..9 : Digit(d) = c)
            ELSE rest

\* totalQuestions and correctAnswers count the persisted evaluations, and the accuracy
\* shown is 100 * correctAnswers / totalQuestions to the nearest hundredth
AggregateOfSaved ==
    outputFile.state = "valid" =>
        LET evals == outputFile.evaluations
            m == outputFile.metadata
            h == ShownHundredths(m.accuracy)
            d == h * m.totalQuestions - 10000 * m.correctAnswers
        IN /\ m.totalQuestions = Len(evals)
           /\ m.correctAnswers = Cardinality({i \in 1..Len(evals) : evals[i].label = 1})
           /\ Len(m.accuracy) >= 5
           /\ m.accuracy[Len(m.accuracy)] = "%"
           /\ m.accuracy[Len(m.accuracy) - 3] = "."
           /\ IF m.totalQuestions = 0 THEN h = 0
              ELSE 2 * d <= m.totalQuestions /\ -2 * d <= m.totalQuestions

MaxIdLen == 3

IdChars == {"a", "-", "q"}

\* convIds and runIds: up to MaxIdLen characters, the first one a letter
IdStrings ==
    {s \in UNION {[1..n -> IdChars] : n \in 1..MaxIdLen} : s[1] = "a"}

\* question numbers
NumberStrings == {<<"0">>, <<"1", "0">>}

\* `${convId}-q${n}-${runId}`
TagOf(convId, n, runId) == convId \o <<"-", "q">> \o n \o <<"-">> \o runId

HasDashQ(s) == \E i \in 1..(Len(s) - 1) : s[i] = "-" /\ s[i + 1] = "q"

\* the tags of one question in two runs, and a tag that is not of the form
InitTag ==
    /\ ProviderOff
    /\ CleanupOff
    /\ EvalOff
    /\ SelectionOff
    /\ \E convId \in IdStrings, n \in NumberStrings, runId \in IdStrings,
          runId2 \in IdStrings, other \in IdStrings :
         /\ ~HasDashQ(other)
         /\ tagCall = [pc |-> "first", convId |-> convId, n |-> n, runId |-> runId,
                       runId2 |-> runId2, other |-> other, results |-> <<>>]

\* the next call: for the tag in runId, for the tag in runId2, for the other tag,
\* and for the tag in runId once more
TagApply ==
    /\ tagCall.pc \in {"first", "second", "third", "fourth"}
    /\ UNCHANGED selection
    /\ LET arg == CASE tagCall.pc = "first" -> TagOf(tagCall.convId, tagCall.n, tagCall.runId)
                    [] tagCall.pc = "second" -> TagOf(tagCall.convId, tagCall.n, tagCall.runId2)
                    [] tagCall.pc = "third" -> tagCall.other
                    [] tagCall.pc = "fourth" -> TagOf(tagCall.convId, tagCall.n, tagCall.runId)
           next == CASE tagCall.pc = "first" -> "second"
                     [] tagCall.pc = "second" -> "third"
                     [] tagCall.pc = "third" -> "fourth"
                     [] tagCall.pc = "fourth" -> "done"
       IN tagCall' = [tagCall EXCEPT !.pc = next,
                                     !.results = Append(@, getConversationContainerTag(arg))]
    /\ UNCHANGED <<provVars, cleanupVars, evalVars>>

NextTag == TagApply

SpecTag == InitTag /\ [][NextTag]_vars

(***************************************************************************)
(* C14: getConversationContainerTag maps "{convId}-q{n}-{runId}" to        *)
(* "{convId}-{runId}" for all convIds, numbers and runIds, leaves a tag    *)
(* that is not of that form unchanged, maps the tags of two different runs *)
(* to different names, and gives the same name when called again.          *)
(***************************************************************************)
C14_ConversationTag ==
    tagCall.pc = "done" =>
        /\ tagCall.results[1] = tagCall.convId \o <<"-">> \o tagCall.runId
        /\ tagCall.results[2] = tagCall.convId \o <<"-">> \o tagCall.runId2
        /\ tagCall.results[3] = tagCall.other
        /\ tagCall.results[4] = tagCall.results[1]
        /\ (tagCall.runId # tagCall.runId2 => tagCall.results[1] # tagCall.results[2])

\* the record of a question whose answer call or judge call failed
FailedOutcome(e) == e.hypothesis # "answer" \/ e.explanation # "judged"

(***************************************************************************)
(* C15: bounded retry: the outcome of a failed answer or judge call is     *)
(* persisted as the question's evaluation only once the calls for the      *)
(* question have been attempted the maximum number of times (MaxAttempts,  *)
(* here two); before that the question stays eligible for another attempt. *)
(***************************************************************************)
C15_BoundedRetry ==
    outputFile.state = "valid" =>
        \A i \in 1..Len(outputFile.evaluations) :
            FailedOutcome(outputFile.evaluations[i])
                => tries[outputFile.evaluations[i].questionId] >= MaxAttempts

(***************************************************************************)
(* C16: however the ingest and search calls of the questions interleave on *)
(* one initialized provider, at most one collection exists per collection  *)
(* name, and the calls for a name that hold a collection id hold the same  *)
(* one.                                                                    *)
(***************************************************************************)
C16_OneCollectionPerName ==
    /\ \A c1, c2 \in collections : c1.name = c2.name => c1.id = c2.id
    /\ \A q1, q2 \in Questions :
          (/\ getConversationContainerTag(QTag(q1)) = getConversationContainerTag(QTag(q2))
           /\ collectionId[q1] # NoId
           /\ collectionId[q2] # NoId)
             => collectionId[q1] = collectionId[q2]

(***************************************************************************)
(* C17: however the ingest calls of the questions follow each other or     *)
(* interleave on one provider, no session has two contents at the provider *)
(* (no sessionId was accepted by ingestText twice).                        *)
(***************************************************************************)
C17_SessionIngestedOnce ==
    \A c1, c2 \in contents : c1.session = c2.session => c1.id = c2.id

(***************************************************************************)
(* C18: the cleanup command deletes a run's checkpoint only if the run's   *)
(* checkpoint loaded, its provider is known, and provider.clear was called *)
(* and returned without error for every containerTag of the run.           *)
(***************************************************************************)
C18_DeleteOnlyCleared ==
    \A r \in Runs \ store :
        /\ ckLoadable[r]
        /\ ckProvider[r] \in AvailableProviders
        /\ \A t \in Range(RunQuestionTags(r)) :
              clearCalls[<<r, t>>] >= 1 /\ <<r, t>> \notin clearThrown

\* the clear calls made so far
RECURSIVE CallsMade(_)
CallsMade(S) ==
    IF S = {} THEN 0
    ELSE LET x == CHOOSE y \in S : TRUE IN clearCalls[x] + CallsMade(S \ {x})

(***************************************************************************)
(* C19: between clear calls and at the end of the cleanup command,         *)
(* totalCleaned + totalFailed is the number of clear calls made, and a     *)
(* GraphlitProvider.clear whose deletion failed at the provider API has    *)
(* been counted in totalFailed, not in totalCleaned.                       *)
(***************************************************************************)
C19_CountsMatchOutcomes ==
    cpc \in {"tags", "runs", "providers", "delete", "done"} =>
        /\ totalCleaned + totalFailed = CallsMade(DOMAIN clearCalls)
        /\ totalFailed = Cardinality(clearThrown)
        /\ (/\ cpc = "tags"
            /\ tidx > 1
            /\ runsByProvider[pidx].name = "graphlit"
            /\ clr.failed)
              => <<runsByProvider[pidx].runs[ridx], containerTags[tidx - 1]>> \in clearThrown

(***************************************************************************)
(* C20: through runs, crashes and restarts, also when two selected result  *)
(* files carry the same questionId, the persisted evaluations hold at most *)
(* one entry per questionId.                                               *)
(***************************************************************************)
C20_OneEntryPerQuestion ==
    outputFile.state = "valid" =>
        \A i, j \in 1..Len(outputFile.evaluations) :
            outputFile.evaluations[i].questionId = outputFile.evaluations[j].questionId
                => i = j

(***************************************************************************)
(* The choice of result files (evaluate.ts 66-69): the names in resultsDir *)
(* that end with ".json" and include "-" + runId, sorted.                  *)
(***************************************************************************)
\* String.prototype.endsWith
endsWith(s, suffix) ==
    Len(s) >= Len(suffix) /\ SubSeq(s, Len(s) - Len(suffix) + 1, Len(s)) = suffix

\* String.prototype.includes
includes(s, sub) ==
    \E i \in 1..(Len(s) - Len(sub) + 1) : SubSeq(s, i, i + Len(sub) - 1) = sub

\* the UTF-16 code unit of a character
CharCode(c) ==
    CASE c = "-" -> 45 [] c = "." -> 46 [] c = "a" -> 97 [] c = "j" -> 106
      [] c = "n" -> 110 [] c = "o" -> 111 [] c = "q" -> 113 [] c = "s" -> 115
      [] c = "t" -> 116 [] c = "x" -> 120

\* the order Array.prototype.sort() puts strings in
RECURSIVE Before(_, _)
Before(s, t) ==
    IF s = <<>> THEN t # <<>>
    ELSE IF t = <<>> THEN FALSE
    ELSE IF Head(s) = Head(t) THEN Before(Tail(s), Tail(t))
    ELSE CharCode(Head(s)) < CharCode(Head(t))

RECURSIVE sort(_)
sort(names) ==
    IF names = {} THEN <<>>
    ELSE LET first == CHOOSE n \in names : \A m \in names : m = n \/ Before(n, m)
         IN <<first>> \o sort(names \ {first})

Extensions == {<<".", "j", "s", "o", "n">>, <<".", "t", "x", "t">>}

\* the name of the result file of a question in a run
FileName(file) == file.questionId \o <<"-">> \o file.runId \o file.ext

\* f.endsWith('.json') && f.includes(`-${runId}`)
Chosen(name, runId) ==
    endsWith(name, <<".", "j", "s", "o", "n">>) /\ includes(name, <<"-">> \o runId)

\* resultsDir holds the result of question "q" in the run to evaluate, and one
\* more file: of any question in any run, a result file or not
InitSelection ==
    /\ ProviderOff
    /\ CleanupOff
    /\ EvalOff
    /\ TagOff
    /\ \E runId \in IdStrings, questionId \in IdStrings, fileRunId \in IdStrings,
          ext \in Extensions :
         selection = [pc |-> "start", runId |-> runId,
                      files |-> {[questionId |-> <<"q">>, runId |-> runId,
                                  ext |-> <<".", "j", "s", "o", "n">>],
                                 [questionId |-> questionId, runId |-> fileRunId,
                                  ext |-> ext]},
                      resultFiles |-> <<>>]

\* readdirSync(resultsDir).filter(...).sort()
SelectResultFiles ==
    /\ selection.pc = "start"
    /\ selection' =
          [selection EXCEPT
              !.pc = "selected",
              !.resultFiles =
                  sort({FileName(f) : f \in {g \in selection.files :
                                                Chosen(FileName(g), selection.runId)}})]
    /\ UNCHANGED <<provVars, cleanupVars, evalVars, tagCall>>

NextSelection == SelectResultFiles

SpecSelection == InitSelection /\ [][NextSelection]_vars

(***************************************************************************)
(* C21: the result files chosen for a runId are result files of that run:  *)
(* a file written for a different runId is never among resultFiles.        *)
(***************************************************************************)
C21_OnlyFilesOfTheRun ==
    selection.pc = "selected" =>
        \A f \in selection.files :
            (\E i \in 1..Len(selection.resultFiles) : selection.resultFiles[i] = FileName(f))
                => f.runId = selection.runId

====
